---- MODULE Spec2Model ----
(***************************************************************************)
(* Model of RouletteSimulator (src/spin.py): the constructor's fields, the *)
(* wheel, the Thirds sections and the loop of run(), one action per step   *)
(* of the loop body.  Money amounts are integers (the program accepts any  *)
(* number; integer balances and stakes are exact in its arithmetic).       *)
(* The '00' pocket of the American wheel, the only non-integer outcome, is *)
(* encoded by DoubleZero.                                                  *)
(***************************************************************************)
EXTENDS Integers, Sequences, FiniteSets, TLC

(* ------------------------------ bounds --------------------------------- *)
MaxSpins == 5
MaxBalance == 4
MaxStake == 2
MaxLabLen == 2
MaxCtorBalance == 2
MaxCtorSpins == 2
MaxCtorStake == 1
MaxCtorLabLen == 2
MaxAgainSpins == 2
MaxLabVal == 2

(* --------------------------- program state ----------------------------- *)
VARIABLES
  system,            \* self.system
  wheel_type,        \* constructor argument wheel_type
  max_spins,         \* self.max_spins
  initial_balance,   \* self.initial_balance
  bet_amounts,       \* self.bet_amounts: number, list (Labouchere) or dict (Thirds)
  balance,           \* self.balance
  current_bet,       \* self.current_bet
  spin_results,      \* self.spin_results
  history,           \* self.history
  balance_over_time, \* self.balance_over_time
  wins,              \* self.wins
  losses,            \* self.losses
  fib_step,          \* self.fib_step
  labc_sequence,     \* self.labc_sequence
  current_step,      \* self.current_step
  current_grind,     \* self.current_grind
  spin,              \* local spin of run()
  bet,               \* local current_bet / total_bet of run()
  pc,                \* position in run()
  halt,              \* how run() ended
  previous           \* what an earlier run() returned to the caller, <<>> if none

vars == <<system, wheel_type, max_spins, initial_balance, bet_amounts, balance,
          current_bet, spin_results, history, balance_over_time, wins, losses,
          fib_step, labc_sequence, current_step, current_grind, spin, bet, pc,
          halt, previous>>

(* ------------------------------ helpers -------------------------------- *)
Max(a, b) == IF a >= b THEN a ELSE b

Range(s) == {s[i] : i \in 1..Len(s)}

Last(s) == s[Len(s)]

RECURSIVE SeqsUpTo(_, _)
SeqsUpTo(S, n) ==
  IF n = 0 THEN {<<>>}
  ELSE LET shorter == SeqsUpTo(S, n - 1)
       IN  shorter \cup {Append(s, x) : s \in {t \in shorter : Len(t) = n - 1}, x \in S}

RECURSIVE Pow2(_)
Pow2(k) == IF k = 0 THEN 1 ELSE 2 * Pow2(k - 1)

(* ------------------------------- wheel --------------------------------- *)
DoubleZero == 0 - 1

Systems == {"Martingale", "Reverse Martingale", "Thirds", "Fibonacci", "DAlembert",
            "Labouchere", "Paroli", "Oscars Grind", "1-3-2-6", "Flat Betting"}

WheelTypes == {"European", "American"}

\* the systems whose bet is the single number 0 and whose stake is self.current_bet
CurrentBetSystems == {"Martingale", "Reverse Martingale", "DAlembert", "Paroli", "Flat Betting"}

SingleNumberSystems == CurrentBetSystems \cup {"Labouchere", "Oscars Grind", "1-3-2-6"}

RunSystems == SingleNumberSystems \cup {"Thirds"}

\* mutant: the European wheel built without the 0 pocket
numbers_NoZero ==
  IF wheel_type = "European"
  THEN [i \in 1..36 |-> i]
  ELSE <<0, DoubleZero>> \o [i \in 1..36 |-> i]

numbers ==
  IF wheel_type = "European"
  THEN [i \in 1..37 |-> i - 1]
  ELSE <<0, DoubleZero>> \o [i \in 1..36 |-> i]

IsInt(num) == num # DoubleZero

define_sections ==
  IF system = "Thirds"
  THEN LET nums == SelectSeq(numbers, IsInt)
           third == Len(nums) \div 3
       IN  [first  |-> SubSeq(nums, 1, third),
            second |-> SubSeq(nums, third + 1, 2 * third),
            third  |-> SubSeq(nums, 2 * third + 1, Len(nums))]
  ELSE <<>>

sections == define_sections

\* the pockets the model lets the wheel stop on: the single number that is
\* bet on, '00', and the first pocket of the second and of the third section
SpinSample == {0, DoubleZero, 12, 24}

spin_wheel == Range(numbers) \cap SpinSample

\* mutant: '00' is taken for the number 0
is_win_DoubleZeroWins(bet_number, spin_result) ==
  bet_number = spin_result \/ (bet_number = 0 /\ spin_result = DoubleZero)

is_win(bet_number, spin_result) == bet_number = spin_result

(* --------------------------- strategy rules ---------------------------- *)
\* mutant: the second and third multipliers swapped
sequence_Swapped == <<1, 2, 3, 6>>

sequence == <<1, 3, 2, 6>>

grind_goal == 1

base_bet == bet_amounts

Get(d, key) == IF key \in DOMAIN d THEN d[key] ELSE 0

LabStake(seq) == IF Len(seq) > 1 THEN seq[1] + Last(seq) ELSE seq[1]

\* mutant: a win pops only the first element
LabWin_FirstOnly(seq) == Tail(seq)

LabWin(seq) ==
  IF Len(seq) > 1
  THEN LET popped == Tail(seq) IN SubSeq(popped, 1, Len(popped) - 1)
  ELSE Tail(seq)

\* mutant: a loss leaves the sequence as it was
LabLoss_NoAppend(seq, lost) == seq

LabLoss(seq, lost) == Append(seq, lost)

ThirdsTotal(bets) == Get(bets, "second") + Get(bets, "third")

\* the stake the loop body computes before its balance check
CurrentStake ==
  CASE system \in CurrentBetSystems -> current_bet
    [] system = "Labouchere" -> LabStake(labc_sequence)
    [] system = "Oscars Grind" -> IF current_grind = 0 THEN bet_amounts ELSE current_bet
    [] system = "1-3-2-6" -> sequence[current_step + 1] * base_bet
    [] system = "Thirds" -> ThirdsTotal(bet_amounts)

SequenceExhausted ==
  IF system = "Labouchere" THEN labc_sequence = <<>>
  ELSE IF system = "1-3-2-6" THEN current_step >= Len(sequence)
  ELSE FALSE

\* mutant: the balance check is off by one
Insufficient_OffByOne(bal, stake) == bal + 1 < stake

Insufficient(bal, stake) == bal < stake

\* mutant: D'Alembert lowers the stake without the floor of 1
BetAfterWin_NoFloor ==
  CASE system = "Martingale" -> bet_amounts
    [] system \in {"Reverse Martingale", "Paroli"} -> current_bet * 2
    [] system = "DAlembert" -> current_bet - 1
    [] system = "Oscars Grind" -> bet_amounts
    [] OTHER -> current_bet

\* mutant: Paroli adds the base stake after a win, Reverse Martingale doubles
BetAfterWin_ParoliAdds ==
  CASE system = "Martingale" -> bet_amounts
    [] system = "Reverse Martingale" -> current_bet * 2
    [] system = "Paroli" -> current_bet + bet_amounts
    [] system = "DAlembert" -> Max(1, current_bet - 1)
    [] system = "Oscars Grind" -> bet_amounts
    [] OTHER -> current_bet

BetAfterWin ==
  CASE system = "Martingale" -> bet_amounts
    [] system \in {"Reverse Martingale", "Paroli"} -> current_bet * 2
    [] system = "DAlembert" -> Max(1, current_bet - 1)
    [] system = "Oscars Grind" -> bet_amounts
    [] OTHER -> current_bet

\* mutant: Martingale adds the base stake after a loss instead of doubling
BetAfterLoss_AddBase ==
  CASE system = "Martingale" -> current_bet + bet_amounts
    [] system \in {"Reverse Martingale", "Paroli"} -> bet_amounts
    [] system = "DAlembert" -> current_bet + 1
    [] OTHER -> current_bet

BetAfterLoss ==
  CASE system = "Martingale" -> current_bet * 2
    [] system \in {"Reverse Martingale", "Paroli"} -> bet_amounts
    [] system = "DAlembert" -> current_bet + 1
    [] OTHER -> current_bet

Payout(stake) == 35 * stake

\* mutant: the step is not wrapped after the fourth win
StepAfterWin_NoWrap(step) == step + 1

StepAfterWin(step) == IF step + 1 < Len(sequence) THEN step + 1 ELSE 0

WinningSection(result) ==
  IF result \in Range(sections.first) THEN "first"
  ELSE IF result \in Range(sections.second) THEN "second"
  ELSE IF result \in Range(sections.third) THEN "third"
  ELSE "None"

\* mutant: the winning section pays 3 x its stake
ThirdsNet_PaysTriple(bets, winning_section) ==
  CASE winning_section = "first" -> 0 - (Get(bets, "second") + Get(bets, "third"))
    [] winning_section = "second" -> 3 * Get(bets, "second") - Get(bets, "third")
    [] winning_section = "third" -> 3 * Get(bets, "third") - Get(bets, "second")
    [] OTHER -> 0 - (Get(bets, "second") + Get(bets, "third"))

ThirdsNet(bets, winning_section) ==
  CASE winning_section = "first" -> 0 - (Get(bets, "second") + Get(bets, "third"))
    [] winning_section = "second" -> 2 * Get(bets, "second") - Get(bets, "third")
    [] winning_section = "third" -> 2 * Get(bets, "third") - Get(bets, "second")
    [] OTHER -> 0 - (Get(bets, "second") + Get(bets, "third"))

(* --------------------------- configurations ---------------------------- *)
LabSeqs == (SeqsUpTo(1..MaxLabVal, MaxLabLen) \ {<<>>}) \cup {<<1, 2, 3>>}

BetAmountsFor(sys) ==
  IF sys = "Thirds"
  THEN {[first |-> 0, second |-> s2, third |-> s3] : s2 \in 1..MaxStake, s3 \in 1..MaxStake}
  ELSE IF sys = "Labouchere" THEN LabSeqs
  ELSE 1..MaxStake

Init ==
  /\ system \in Systems
  /\ wheel_type \in WheelTypes
  /\ max_spins \in 1..MaxSpins
  /\ balance \in 1..MaxBalance
  /\ initial_balance = balance
  /\ bet_amounts \in BetAmountsFor(system)
  /\ current_bet = bet_amounts
  /\ spin_results = <<>>
  /\ history = <<>>
  /\ balance_over_time = <<>>
  /\ wins = 0
  /\ losses = 0
  /\ fib_step = 0
  /\ labc_sequence = IF system = "Labouchere" THEN bet_amounts ELSE <<>>
  /\ current_step = 0
  /\ current_grind = 0
  /\ spin = 0
  /\ bet = 0
  /\ pc = "loop"
  /\ halt = "running"
  /\ previous = <<>>

(* ------------------------------ run() ---------------------------------- *)
config == <<system, wheel_type, max_spins, initial_balance, bet_amounts, fib_step, previous>>

\* mutant: the loop admits one iteration past the cap
LoopGuard_OffByOne == spin <= max_spins /\ balance > 0

LoopGuard == spin < max_spins /\ balance > 0

\* the while condition is false: run() returns
LoopExit ==
  /\ pc = "loop"
  /\ ~LoopGuard
  /\ pc' = "done"
  /\ halt' = "loop_exit"
  /\ UNCHANGED <<config, balance, current_bet, spin_results, history, balance_over_time,
                 wins, losses, labc_sequence, current_step, current_grind, spin, bet>>

\* no branch of the loop body matches self.system
UnknownSystem ==
  /\ pc = "loop"
  /\ LoopGuard
  /\ system \notin RunSystems
  /\ spin' = spin + 1
  /\ pc' = "done"
  /\ halt' = "ValueError"
  /\ UNCHANGED <<config, balance, current_bet, spin_results, history, balance_over_time,
                 wins, losses, labc_sequence, current_step, current_grind, bet>>

\* "Sequence completed!" and break
SequenceCompleted ==
  /\ pc = "loop"
  /\ LoopGuard
  /\ system \in RunSystems
  /\ SequenceExhausted
  /\ spin' = spin + 1
  /\ pc' = "done"
  /\ halt' = "sequence_completed"
  /\ UNCHANGED <<config, balance, current_bet, spin_results, history, balance_over_time,
                 wins, losses, labc_sequence, current_step, current_grind, bet>>

\* "Insufficient balance to continue." and break
InsufficientBalance ==
  /\ pc = "loop"
  /\ LoopGuard
  /\ system \in RunSystems
  /\ ~SequenceExhausted
  /\ Insufficient(balance, CurrentStake)
  /\ spin' = spin + 1
  /\ bet' = CurrentStake
  /\ pc' = "done"
  /\ halt' = "insufficient"
  /\ UNCHANGED <<config, balance, current_bet, spin_results, history, balance_over_time,
                 wins, losses, labc_sequence, current_step, current_grind>>

\* self.balance -= current_bet
PlaceBet ==
  /\ pc = "loop"
  /\ LoopGuard
  /\ system \in RunSystems
  /\ ~SequenceExhausted
  /\ ~Insufficient(balance, CurrentStake)
  /\ spin' = spin + 1
  /\ bet' = CurrentStake
  /\ balance' = balance - CurrentStake
  /\ pc' = "wagered"
  /\ UNCHANGED <<config, current_bet, spin_results, history, balance_over_time,
                 wins, losses, labc_sequence, current_step, current_grind, halt>>

SingleRecord(result, outcome, bal) ==
  [spin |-> spin, bet |-> bet, result |-> result, outcome |-> outcome, balance |-> bal]

\* whether the win path of the system calls prompt_continue
\* mutant: the Flat Betting win path does not call prompt_continue
PromptsAfterWin_FlatSilent(step, grind) ==
  CASE system = "1-3-2-6" -> step < Len(sequence)
    [] system = "Oscars Grind" -> grind >= grind_goal
    [] system = "Flat Betting" -> FALSE
    [] OTHER -> TRUE

PromptsAfterWin(step, grind) ==
  CASE system = "1-3-2-6" -> step < Len(sequence)
    [] system = "Oscars Grind" -> grind >= grind_goal
    [] OTHER -> TRUE

\* the spin and the win branch of a single-number system
SettleWin ==
  /\ pc = "wagered"
  /\ system \in SingleNumberSystems
  /\ \E result \in spin_wheel :
       /\ is_win(0, result)
       /\ spin_results' = Append(spin_results, result)
       /\ balance' = balance + Payout(bet)
       /\ history' = Append(history, SingleRecord(result, "Win", balance'))
  /\ current_bet' = BetAfterWin
  /\ labc_sequence' = IF system = "Labouchere" THEN LabWin(labc_sequence) ELSE labc_sequence
  /\ current_grind' = IF system = "Oscars Grind" THEN current_grind + 1 ELSE current_grind
  /\ wins' = wins + 1
  /\ IF PromptsAfterWin(current_step + 1, current_grind')
     THEN /\ current_step' = IF system = "1-3-2-6" THEN current_step + 1 ELSE current_step
          /\ pc' = "prompt"
          /\ UNCHANGED balance_over_time
     ELSE /\ current_step' = IF system = "1-3-2-6" THEN StepAfterWin(current_step) ELSE current_step
          /\ balance_over_time' = Append(balance_over_time, balance')
          /\ pc' = "loop"
  /\ UNCHANGED <<config, losses, spin, bet, halt>>

\* the spin and the loss branch of a single-number system
SettleLoss ==
  /\ pc = "wagered"
  /\ system \in SingleNumberSystems
  /\ \E result \in spin_wheel :
       /\ ~is_win(0, result)
       /\ spin_results' = Append(spin_results, result)
       /\ history' = Append(history, SingleRecord(result, "Loss", balance))
  /\ current_bet' = BetAfterLoss
  /\ labc_sequence' = IF system = "Labouchere" THEN LabLoss(labc_sequence, bet) ELSE labc_sequence
  /\ current_step' = IF system = "1-3-2-6" THEN 0 ELSE current_step
  /\ losses' = losses + 1
  /\ balance_over_time' = Append(balance_over_time, balance)
  /\ pc' = "loop"
  /\ UNCHANGED <<config, balance, wins, current_grind, spin, bet, halt>>

ThirdsRecord(result, winning_section, net, bal) ==
  [spin |-> spin,
   bet |-> [second |-> Get(bet_amounts, "second"), third |-> Get(bet_amounts, "third")],
   result |-> result,
   winning_section |-> IF winning_section # "None" THEN winning_section ELSE "None (0 or 00)",
   net |-> net,
   balance |-> bal]

\* mutant: a break-even spin is counted as a loss
SettleThirds_BreakEvenLoses ==
  /\ pc = "wagered"
  /\ system = "Thirds"
  /\ \E result \in spin_wheel :
       LET winning_section == WinningSection(result)
           net == ThirdsNet(bet_amounts, winning_section)
       IN  /\ spin_results' = Append(spin_results, result)
           /\ balance' = balance + net
           /\ history' = Append(history, ThirdsRecord(result, winning_section, net, balance'))
           /\ wins' = IF net > 0 THEN wins + 1 ELSE wins
           /\ losses' = IF net <= 0 THEN losses + 1 ELSE losses
           /\ IF net > 0
              THEN pc' = "prompt" /\ UNCHANGED balance_over_time
              ELSE pc' = "loop" /\ balance_over_time' = Append(balance_over_time, balance')
  /\ UNCHANGED <<config, current_bet, labc_sequence, current_step, current_grind, spin, bet, halt>>

\* the spin and the settlement of the Thirds branch
SettleThirds ==
  /\ pc = "wagered"
  /\ system = "Thirds"
  /\ \E result \in spin_wheel :
       LET winning_section == WinningSection(result)
           net == ThirdsNet(bet_amounts, winning_section)
       IN  /\ spin_results' = Append(spin_results, result)
           /\ balance' = balance + net
           /\ history' = Append(history, ThirdsRecord(result, winning_section, net, balance'))
           /\ wins' = IF net > 0 THEN wins + 1 ELSE wins
           /\ losses' = IF net < 0 THEN losses + 1 ELSE losses
           /\ IF net > 0
              THEN pc' = "prompt" /\ UNCHANGED balance_over_time
              ELSE pc' = "loop" /\ balance_over_time' = Append(balance_over_time, balance')
  /\ UNCHANGED <<config, current_bet, labc_sequence, current_step, current_grind, spin, bet, halt>>

\* mutant: the grind counter is not reset after the user continues
PromptYes_NoGrindReset ==
  /\ pc = "prompt"
  /\ balance_over_time' = Append(balance_over_time, balance)
  /\ pc' = "loop"
  /\ UNCHANGED <<config, balance, current_bet, spin_results, history, wins, losses,
                 labc_sequence, current_step, current_grind, spin, bet, halt>>

\* prompt_continue returns True: the iteration ends with the snapshot
PromptYes ==
  /\ pc = "prompt"
  /\ current_grind' = IF system = "Oscars Grind" THEN 0 ELSE current_grind
  /\ balance_over_time' = Append(balance_over_time, balance)
  /\ pc' = "loop"
  /\ UNCHANGED <<config, balance, current_bet, spin_results, history, wins, losses,
                 labc_sequence, current_step, spin, bet, halt>>

\* mutant: a negative answer is noted but the loop goes on
PromptNo_Ignored ==
  /\ pc = "prompt"
  /\ balance_over_time' = Append(balance_over_time, balance)
  /\ pc' = "loop"
  /\ halt' = "user_stop"
  /\ UNCHANGED <<config, balance, current_bet, spin_results, history,
                 wins, losses, labc_sequence, current_step, current_grind, spin, bet>>

\* prompt_continue returns False: break
PromptNo ==
  /\ pc = "prompt"
  /\ pc' = "done"
  /\ halt' = "user_stop"
  /\ UNCHANGED <<config, balance, current_bet, spin_results, history, balance_over_time,
                 wins, losses, labc_sequence, current_step, current_grind, spin, bet>>

Next ==
  \/ LoopExit
  \/ UnknownSystem
  \/ SequenceCompleted
  \/ InsufficientBalance
  \/ PlaceBet
  \/ SettleWin
  \/ SettleLoss
  \/ SettleThirds
  \/ PromptYes
  \/ PromptNo

Spec == Init /\ [][Next]_vars

(* ------------------ get_user_input() and __init__() -------------------- *)
\* SpecCtor starts before the simulator exists: at pc = "input" main() has
\* read the raw answers of get_user_input(), at pc = "new" a caller passes
\* the constructor arguments that main() cannot pass (those it can pass are
\* reached through pc = "input").  The variables hold the values entered or
\* passed.
CtorAmounts == (0 - 1)..MaxCtorStake

CtorBetAmountsFor(sys) ==
  IF sys = "Thirds"
  THEN {[first |-> 0, second |-> s2, third |-> s3] : s2 \in CtorAmounts, s3 \in CtorAmounts}
  ELSE IF sys = "Labouchere" THEN SeqsUpTo(CtorAmounts, MaxCtorLabLen)
  ELSE CtorAmounts

\* the checks get_user_input() applies to the answers
InputAccepts ==
  /\ balance > 0
  /\ CASE system = "Thirds" -> TRUE
       [] system = "Labouchere" -> bet_amounts # <<>>
       [] OTHER -> bet_amounts > 0
  /\ max_spins > 0

InitCtor ==
  /\ pc \in {"input", "new"}
  /\ system \in IF pc = "input" THEN Systems ELSE Systems \cup {"Kelly"}
  /\ wheel_type \in IF pc = "input" THEN WheelTypes ELSE WheelTypes \cup {"French"}
  /\ max_spins \in 0..MaxCtorSpins
  /\ balance \in (0 - 1)..MaxCtorBalance
  /\ bet_amounts \in CtorBetAmountsFor(system)
  /\ initial_balance = balance
  /\ current_bet = bet_amounts
  /\ spin_results = <<>>
  /\ history = <<>>
  /\ balance_over_time = <<>>
  /\ wins = 0
  /\ losses = 0
  /\ fib_step = 0
  /\ labc_sequence = <<>>
  /\ current_step = 0
  /\ current_grind = 0
  /\ spin = 0
  /\ bet = 0
  /\ halt = "running"
  /\ previous = <<>>
  /\ pc = "new" => (system \notin Systems \/ wheel_type \notin WheelTypes \/ ~InputAccepts)

\* get_user_input() returns the answers to main(), which calls the constructor
InputAccepted ==
  /\ pc = "input"
  /\ InputAccepts
  /\ pc' = "new"
  /\ UNCHANGED <<config, balance, current_bet, spin_results, history, balance_over_time,
                 wins, losses, labc_sequence, current_step, current_grind, spin, bet, halt>>

\* get_user_input() asks again or calls sys.exit(1)
InputRejected ==
  /\ pc = "input"
  /\ ~InputAccepts
  /\ pc' = "rejected"
  /\ halt' = "input_rejected"
  /\ UNCHANGED <<config, balance, current_bet, spin_results, history, balance_over_time,
                 wins, losses, labc_sequence, current_step, current_grind, spin, bet>>

\* __init__ returns the simulator
Construct ==
  /\ pc = "new"
  /\ wheel_type \in WheelTypes
  /\ labc_sequence' = IF system = "Labouchere" THEN bet_amounts ELSE labc_sequence
  /\ pc' = "loop"
  /\ UNCHANGED <<config, balance, current_bet, spin_results, history, balance_over_time,
                 wins, losses, current_step, current_grind, spin, bet, halt>>

\* __init__ raises ValueError("wheel_type must be 'European' or 'American'")
ConstructRaises ==
  /\ pc = "new"
  /\ wheel_type \notin WheelTypes
  /\ pc' = "raised"
  /\ halt' = "ValueError"
  /\ UNCHANGED <<config, balance, current_bet, spin_results, history, balance_over_time,
                 wins, losses, labc_sequence, current_step, current_grind, spin, bet>>

NextCtor ==
  \/ InputAccepted
  \/ InputRejected
  \/ Construct
  \/ ConstructRaises
  \/ Next

SpecCtor == InitCtor /\ [][NextCtor]_vars

(* ------------------------- two runs of run() -------------------------- *)
\* the tuple run() returns
Returned == <<history, balance, balance_over_time, wins, losses>>

\* the ways run() ends with a return
HaltReasons == {"insufficient", "sequence_completed", "user_stop", "loop_exit"}

InitTwo == Init /\ max_spins <= MaxAgainSpins

\* the caller keeps what run() returned and runs a new simulator built from
\* the same arguments except the spin cap
RunAgain ==
  /\ pc = "done"
  /\ halt \in HaltReasons
  /\ previous = <<>>
  /\ previous' = [result |-> Returned, halt |-> halt]
  /\ max_spins' \in 1..MaxAgainSpins
  /\ balance' = initial_balance
  /\ current_bet' = bet_amounts
  /\ spin_results' = <<>>
  /\ history' = <<>>
  /\ balance_over_time' = <<>>
  /\ wins' = 0
  /\ losses' = 0
  /\ labc_sequence' = IF system = "Labouchere" THEN bet_amounts ELSE <<>>
  /\ current_step' = 0
  /\ current_grind' = 0
  /\ spin' = 0
  /\ bet' = 0
  /\ pc' = "loop"
  /\ halt' = "running"
  /\ UNCHANGED <<system, wheel_type, initial_balance, bet_amounts, fib_step>>

NextTwo ==
  \/ RunAgain
  \/ Next

SpecTwoRuns == InitTwo /\ [][NextTwo]_vars

(* ------------------------- claim vocabulary ---------------------------- *)
IsSingle == system \in SingleNumberSystems

\* balance before the i-th recorded spin
BalanceBefore(i) == IF i = 1 THEN initial_balance ELSE history[i - 1].balance

\* number of consecutive 'Loss' records of h that end at index j
RECURSIVE LossRun(_, _)
LossRun(h, j) ==
  IF j = 0 THEN 0
  ELSE IF h[j].outcome = "Loss" THEN 1 + LossRun(h, j - 1) ELSE 0

AllWins(h, i, j) == \A k \in i..j : h[k].outcome = "Win"

(* C1: for every strategy, from a positive balance and positive stakes,    *)
(* the balance is never negative in any reachable state of run(), neither  *)
(* after a wager is deducted nor after a spin is settled.                  *)
C1_BalanceNeverNegative == balance >= 0

(* C2: for every recorded spin the balance in the history record equals    *)
(* the balance before the spin minus the total stake plus the payout if    *)
(* the spin won: 35 x stake for the single-number strategies, 2 x the      *)
(* winning section's stake for Thirds, nothing on a loss.                  *)
C2_Stake(r) == IF system = "Thirds" THEN r.bet.second + r.bet.third ELSE r.bet

C2_Payout(r) ==
  IF system = "Thirds"
  THEN IF r.winning_section = "second" THEN 2 * r.bet.second
       ELSE IF r.winning_section = "third" THEN 2 * r.bet.third
       ELSE 0
  ELSE IF r.outcome = "Win" THEN 35 * r.bet ELSE 0

C2_RecordedBalance ==
  \A i \in 1..Len(history) :
    history[i].balance = BalanceBefore(i) - C2_Stake(history[i]) + C2_Payout(history[i])

(* C3: a wager is placed only when the balance is at least the required    *)
(* stake (Thirds: second + third); when the balance is smaller the run     *)
(* halts for insufficient balance on that iteration without spinning and   *)
(* leaves balance, history, wins and losses unchanged.                     *)
C3_AtStakeCheck == pc = "loop" /\ LoopGuard /\ system \in RunSystems /\ ~SequenceExhausted

C3_WagerOnlyWhenAffordable ==
  [][ /\ (pc = "loop" /\ pc' = "wagered") =>
           (balance >= CurrentStake /\ balance' = balance - CurrentStake)
      /\ (C3_AtStakeCheck /\ balance < CurrentStake) =>
           /\ pc' = "done"
           /\ halt' = "insufficient"
           /\ UNCHANGED <<balance, history, wins, losses, spin_results, balance_over_time>>
    ]_vars

C3_Witness ==
  /\ pc = "done"
  /\ halt = "insufficient"
  /\ Len(history) > 0
  /\ balance > 0

(* C4: Martingale: after an unbroken run of k consecutive losses since the *)
(* start or the last win the next stake is base x 2^k; after a win (the    *)
(* user continuing) the next stake is the base stake.                      *)
C4_MartingaleStake ==
  system = "Martingale" =>
    /\ \A i \in 1..Len(history) :
         history[i].bet = bet_amounts * Pow2(LossRun(history, i - 1))
    /\ current_bet = bet_amounts * Pow2(LossRun(history, Len(history)))
    /\ pc = "wagered" => bet = current_bet

C4_Witness ==
  /\ system = "Martingale"
  /\ \E i \in 1..Len(history) :
       /\ i + 3 <= Len(history)
       /\ history[i].outcome = "Win"
       /\ history[i + 1].outcome = "Loss" /\ history[i + 1].bet = bet_amounts
       /\ history[i + 2].outcome = "Loss"
       /\ history[i + 3].bet = 4 * bet_amounts

(* C5: Labouchere: the stake of a spin is first + last element of the      *)
(* working sequence (the sole element when its length is 1); a win removes *)
(* the first and last elements (the sole element), a loss appends the      *)
(* stake just lost; the other elements and their order are unchanged.      *)
C5_LabouchereRule ==
  [][ system = "Labouchere" =>
        LET seq == labc_sequence
            n == Len(seq)
            stake == IF n = 1 THEN seq[1] ELSE seq[1] + seq[n]
        IN  /\ (pc = "loop" /\ pc' = "wagered") =>
                 (bet' = stake /\ balance' = balance - stake /\ labc_sequence' = seq)
            /\ (pc = "wagered" /\ wins' = wins + 1) =>
                 /\ bet = stake
                 /\ history'[Len(history')].bet = stake
                 /\ labc_sequence' = [k \in 1..Max(0, n - 2) |-> seq[k + 1]]
            /\ (pc = "wagered" /\ losses' = losses + 1) =>
                 /\ bet = stake
                 /\ history'[Len(history')].bet = stake
                 /\ labc_sequence' = seq \o <<stake>>
            /\ pc # "wagered" => labc_sequence' = seq
    ]_vars

C5_Witness ==
  /\ system = "Labouchere"
  /\ labc_sequence # <<>>
  /\ wins >= 2
  /\ losses >= 1

(* C6 as stated: Labouchere: the length of the working sequence is         *)
(* non-increasing over the run, no spin leaves the sequence longer.        *)
C6_LengthNonIncreasing ==
  [][system = "Labouchere" => Len(labc_sequence') <= Len(labc_sequence)]_vars

(* C6 amended: Labouchere: a winning spin never leaves the sequence longer *)
(* (it becomes 2 shorter, or empty when at most 2 elements remained); a    *)
(* losing spin leaves it exactly one element longer; no other step changes *)
(* its length.                                                             *)
C6_LengthPerSpin ==
  [][ system = "Labouchere" =>
        /\ wins' = wins + 1 => Len(labc_sequence') = Max(0, Len(labc_sequence) - 2)
        /\ losses' = losses + 1 => Len(labc_sequence') = Len(labc_sequence) + 1
        /\ (wins' = wins /\ losses' = losses) => Len(labc_sequence') = Len(labc_sequence)
    ]_vars

C6_Witness ==
  /\ system = "Labouchere"
  /\ wins > 0
  /\ losses > 0
  /\ Len(labc_sequence) > Len(bet_amounts)

(* C7: Labouchere: whenever a win empties the working sequence the run     *)
(* ends in the sequence-complete halt ('Sequence completed!'), also when   *)
(* the emptying win is the max_spins-th spin (the user continuing).        *)
C7_EmptySequenceHaltsComplete ==
  (system = "Labouchere" /\ labc_sequence = <<>> /\ pc = "done" /\ halt # "user_stop")
    => halt = "sequence_completed"

(* C8: Fibonacci: a run configured with the Fibonacci strategy places      *)
(* wagers of Fibonacci(step) x base, the first one (step 0) being base x 1 *)
(* whenever the balance covers it.                                         *)
C8_FibonacciWagers ==
  (system = "Fibonacci" /\ pc = "done" /\ initial_balance >= bet_amounts)
    => (Len(history) >= 1 /\ history[1].bet = bet_amounts * 1)

(* C9: 1-3-2-6: at the start of every spin and wherever the continuation   *)
(* prompt reads it the step index is in {0,1,2,3}; every loss and the win  *)
(* that completes the fourth step reset it to 0.                           *)
C9_StepIndex ==
  /\ []((system = "1-3-2-6" /\ pc \in {"loop", "prompt"}) => current_step \in 0..3)
  /\ [][ (system = "1-3-2-6" /\ pc = "wagered") =>
           /\ losses' = losses + 1 => current_step' = 0
           /\ (wins' = wins + 1 /\ current_step = 3) => current_step' = 0
           /\ (wins' = wins + 1 /\ current_step < 3) => current_step' = current_step + 1
       ]_vars

C9_Witness ==
  /\ system = "1-3-2-6"
  /\ pc = "loop"
  /\ current_step = 0
  /\ Len(history) >= 4
  /\ AllWins(history, Len(history) - 3, Len(history))
  /\ losses > 0

(* C10: 1-3-2-6: four consecutive wins from step 0 wager base x 1, x 3,    *)
(* x 2, x 6 in that order, the next wager is base x 1 again, and the run   *)
(* does not halt because the four-step sequence was completed.             *)
C10_FourWins ==
  system = "1-3-2-6" =>
    /\ halt # "sequence_completed"
    /\ \A i \in 1..Len(history) :
         (/\ i + 3 <= Len(history)
          /\ (i = 1 \/ history[i - 1].outcome = "Loss")
          /\ AllWins(history, i, i + 3)) =>
            /\ history[i].bet = bet_amounts * 1
            /\ history[i + 1].bet = bet_amounts * 3
            /\ history[i + 2].bet = bet_amounts * 2
            /\ history[i + 3].bet = bet_amounts * 6
            /\ i + 4 <= Len(history) => history[i + 4].bet = bet_amounts * 1
            /\ (i + 3 = Len(history) /\ pc = "loop" /\ LoopGuard) => ENABLED PlaceBet

C10_Witness ==
  /\ system = "1-3-2-6"
  /\ Len(history) >= 5
  /\ AllWins(history, 1, 4)
  /\ history[5].bet = bet_amounts
\* number of consecutive 'Win' records of h that end at index j
RECURSIVE WinRun(_, _)
WinRun(h, j) ==
  IF j = 0 THEN 0
  ELSE IF h[j].outcome = "Win" THEN 1 + WinRun(h, j - 1) ELSE 0

CountOutcome(h, o) == Cardinality({i \in 1..Len(h) : h[i].outcome = o})

(* C11: D'Alembert: for any base stake >= 1 the stake is never below 1; a  *)
(* loss raises it by exactly 1 and a win lowers it by exactly 1 unless     *)
(* that would go below 1, in which case it becomes 1.                      *)
C11_DAlembertStake ==
  /\ [](system = "DAlembert" =>
          /\ current_bet >= 1
          /\ \A i \in 1..Len(history) : history[i].bet >= 1)
  /\ [][ (system = "DAlembert" /\ pc = "wagered") =>
           /\ losses' = losses + 1 => current_bet' = current_bet + 1
           /\ (wins' = wins + 1 /\ current_bet - 1 >= 1) => current_bet' = current_bet - 1
           /\ (wins' = wins + 1 /\ current_bet - 1 < 1) => current_bet' = 1
       ]_vars

C11_Witness ==
  /\ system = "DAlembert"
  /\ \E i \in 1..Len(history) :
       /\ i + 3 <= Len(history)
       /\ history[i].outcome = "Win" /\ history[i].bet = 1
       /\ history[i + 1].outcome = "Loss" /\ history[i + 1].bet = 1
       /\ history[i + 2].outcome = "Win" /\ history[i + 2].bet = 2
       /\ history[i + 3].bet = 1

(* C12: Reverse Martingale and Paroli are functionally identical: both     *)
(* double the stake after a win and reset it to the base stake after a     *)
(* loss, so history, balance, snapshots, wins and losses are one and the   *)
(* same function of the configuration, the wheel outcomes and the          *)
(* continuation answers, whichever of the two names is configured.         *)
C12_Record(i) ==
  LET stake == bet_amounts * Pow2(WinRun(history, i - 1))
      won == spin_results[i] = 0
  IN  [spin |-> i, bet |-> stake, result |-> spin_results[i],
       outcome |-> IF won THEN "Win" ELSE "Loss",
       balance |-> BalanceBefore(i) - stake + (IF won THEN 35 * stake ELSE 0)]

C12_Snapshots ==
  LET n == IF pc = "prompt" \/ halt = "user_stop" THEN Len(history) - 1 ELSE Len(history)
  IN  [i \in 1..n |-> history[i].balance]

C12_SameFunction ==
  system \in {"Reverse Martingale", "Paroli"} =>
    /\ pc # "wagered" => Len(history) = Len(spin_results)
    /\ \A i \in 1..Len(history) : history[i] = C12_Record(i)
    /\ current_bet = bet_amounts * Pow2(WinRun(history, Len(history)))
    /\ balance = (IF Len(history) = 0 THEN initial_balance ELSE Last(history).balance)
                 - (IF pc = "wagered" THEN current_bet ELSE 0)
    /\ balance_over_time = C12_Snapshots
    /\ wins = CountOutcome(history, "Win")
    /\ losses = CountOutcome(history, "Loss")

C12_Witness ==
  /\ system = "Paroli"
  /\ Len(history) >= 4
  /\ AllWins(history, 1, 2)
  /\ history[3].outcome = "Loss" /\ history[3].bet = 4 * bet_amounts
  /\ history[4].bet = bet_amounts

(* C13: Thirds: with stakes s2 on 'second' and s3 on 'third' the net       *)
(* recorded for a spin is 2*s2 - s3 when the outcome is in the second      *)
(* section, 2*s3 - s2 in the third section and -(s2 + s3) in the first     *)
(* section or on a zero symbol; s2=5, s3=10 gives 0, 15 and -15.           *)
C13_Example == [first |-> 0, second |-> 5, third |-> 10]

C13_ThirdsNet ==
  /\ ThirdsNet(C13_Example, "second") = 0
  /\ ThirdsNet(C13_Example, "third") = 15
  /\ ThirdsNet(C13_Example, "first") = 0 - 15
  /\ ThirdsNet(C13_Example, "None") = 0 - 15
  /\ system = "Thirds" =>
       \A i \in 1..Len(history) :
         LET r == history[i]
             s2 == bet_amounts.second
             s3 == bet_amounts.third
         IN  /\ r.winning_section = "second" => r.net = 2 * s2 - s3
             /\ r.winning_section = "third" => r.net = 2 * s3 - s2
             /\ r.winning_section = "first" => r.net = 0 - (s2 + s3)
             /\ r.result \in {0, DoubleZero} => r.net = 0 - (s2 + s3)
             /\ r.winning_section \in {"first", "second", "third", "None (0 or 00)"}

C13_Witness ==
  /\ system = "Thirds"
  /\ Len(history) >= 2
  /\ history[1].winning_section = "third" /\ history[1].net = 1
  /\ history[2].result = DoubleZero

(* C14: Thirds: on both wheel types the sections 'first', 'second' and     *)
(* 'third' are three contiguous, pairwise disjoint groups of 12 pockets    *)
(* that cover exactly 1..36: {1..12}, {13..24}, {25..36}; neither 0 nor    *)
(* '00' belongs to a section.                                              *)
C14_SectionsPartition ==
  system = "Thirds" =>
    /\ sections.first = [i \in 1..12 |-> i]
    /\ sections.second = [i \in 1..12 |-> 12 + i]
    /\ sections.third = [i \in 1..12 |-> 24 + i]
    /\ \A z \in {0, DoubleZero} :
         z \notin Range(sections.first) \cup Range(sections.second) \cup Range(sections.third)

(* C15: when run() returns, the balance-snapshot sequence holds exactly    *)
(* one entry per completed spin: it is as long as the history and its i-th *)
(* entry is the balance of the i-th record, whichever halt ended the run.  *)
C15_SnapshotPerSpin ==
  pc = "done" =>
    /\ Len(balance_over_time) = Len(history)
    /\ \A i \in 1..Len(history) : balance_over_time[i] = history[i].balance

(* C16 as stated: in every strategy each winning spin is followed, before  *)
(* any further wager, by one consultation of prompt_continue.              *)
C16_EveryWinPrompts ==
  [][(pc = "wagered" /\ wins' = wins + 1) => pc' = "prompt"]_vars

(* C16 amended: each winning spin (for Thirds: a spin with net > 0) is     *)
(* followed, before any further wager, by one consultation of              *)
(* prompt_continue, except the 1-3-2-6 win that completes the fourth step: *)
(* it resets the step to 0 and the loop goes on without a prompt.          *)
C16_WinPromptsUnlessCycleDone ==
  [][ /\ (pc = "wagered" /\ wins' = wins + 1) =>
           IF system = "1-3-2-6" /\ current_step = 3
           THEN pc' = "loop" /\ current_step' = 0
           ELSE pc' = "prompt"
      /\ pc' = "prompt" => (pc = "wagered" /\ wins' = wins + 1)
      /\ pc = "prompt" =>
           /\ pc' \in {"loop", "done"}
           /\ UNCHANGED <<balance, spin_results, history, wins, losses, spin>>
    ]_vars

C16_Witness ==
  /\ system = "1-3-2-6"
  /\ pc = "loop"
  /\ Len(history) = 4
  /\ AllWins(history, 1, 4)
  /\ Len(balance_over_time) = 4

(* C17: once the continuation decision answers negatively the run halts:   *)
(* no further wager is deducted, no further spin occurs, and balance,      *)
(* history, wins and losses keep the values they had at the answer.        *)
C17_NegativeAnswerHalts ==
  /\ [](halt = "user_stop" => pc = "done")
  /\ [][ /\ (pc = "prompt" /\ halt' = "user_stop") =>
              UNCHANGED <<balance, spin_results, history, wins, losses, spin>>
         /\ halt = "user_stop" =>
              UNCHANGED <<balance, spin_results, history, wins, losses, spin, pc, halt>>
       ]_vars

C17_Witness ==
  /\ halt = "user_stop"
  /\ pc = "done"
  /\ wins >= 1
  /\ spin < max_spins
  /\ balance > 0

BeforeRun == pc \in {"input", "new", "rejected", "raised"}

(* C18: constructing a simulator with a wheel type other than 'European'   *)
(* or 'American' fails with ValueError and no spin is ever simulated;      *)
(* 'European' yields exactly the 37 outcomes 0..36 and 'American' exactly  *)
(* the 38 outcomes 0..36 plus '00'.                                        *)
C18_WheelTypes ==
  /\ [](wheel_type \notin {"European", "American"} =>
          /\ pc \in {"new", "raised"}
          /\ pc = "raised" => halt = "ValueError"
          /\ spin = 0 /\ spin_results = <<>> /\ history = <<>>)
  /\ [](~BeforeRun =>
          /\ wheel_type = "European" =>
               (Len(numbers) = 37 /\ Range(numbers) = 0..36)
          /\ wheel_type = "American" =>
               (Len(numbers) = 38 /\ Range(numbers) = (0..36) \cup {DoubleZero})
          /\ Cardinality(Range(numbers)) = Len(numbers)
          /\ Range(spin_results) \subseteq Range(numbers))
  /\ [][pc = "new" =>
          (pc' = "raised" <=> wheel_type \notin {"European", "American"})]_vars

C18_Witness ==
  /\ pc = "raised"
  /\ halt = "ValueError"
  /\ wheel_type = "French"
  /\ system \in Systems

(* C19: a configuration with a non-positive initial balance, stake or      *)
(* maximum spin count, a malformed Labouchere sequence (empty or with a    *)
(* non-positive number) or an unsupported strategy is rejected before any  *)
(* spin is simulated and never silently accepted: no wheel spin happens    *)
(* and run() does not return a result for it.                              *)
C19_Invalid ==
  \/ initial_balance <= 0
  \/ max_spins <= 0
  \/ system \notin Systems
  \/ /\ system = "Labouchere"
     /\ (bet_amounts = <<>> \/ \E i \in 1..Len(bet_amounts) : bet_amounts[i] <= 0)
  \/ /\ system = "Thirds"
     /\ (bet_amounts.second < 0 \/ bet_amounts.third < 0)
  \/ /\ system \in Systems \ {"Labouchere", "Thirds"}
     /\ bet_amounts <= 0

C19_InvalidRejected ==
  C19_Invalid =>
    /\ spin_results = <<>>
    /\ pc = "done" => halt = "ValueError"

(* C20: the four runtime halt conditions (insufficient balance, sequence   *)
(* exhausted, user declined, spin cap reached) are each reported in the    *)
(* run's final result: two runs that ended for different halt reasons      *)
(* never yield the same result.                                            *)
C20_HaltsDistinguishable ==
  (/\ previous # <<>>
   /\ pc = "done"
   /\ halt \in HaltReasons
   /\ halt # previous.halt) => Returned # previous.result

\* a recorded spin that won: net > 0 in Thirds, outcome 'Win' elsewhere
Won(r) == IF system = "Thirds" THEN r.net > 0 ELSE r.outcome = "Win"

\* net profit of a recorded spin over the whole spin
NetOf(h, i) == h[i].balance - BalanceBefore(i)

\* number of consecutive winning records of h that end at index j
RECURSIVE StreakAt(_, _)
StreakAt(h, j) ==
  IF j = 0 THEN 0
  ELSE IF Won(h[j]) THEN 1 + StreakAt(h, j - 1) ELSE 0

\* cumulative profit of the winning records of h that end at index j
RECURSIVE StreakProfitAt(_, _)
StreakProfitAt(h, j) ==
  IF j = 0 THEN 0
  ELSE IF Won(h[j]) THEN NetOf(h, j) + StreakProfitAt(h, j - 1) ELSE 0

LongestStreak(h) ==
  IF h = <<>> THEN 0
  ELSE CHOOSE n \in 0..Len(h) :
         /\ \E j \in 1..Len(h) : StreakAt(h, j) = n
         /\ \A j \in 1..Len(h) : StreakAt(h, j) <= n

(* C21: the run tracks win streaks and reports them: when run() returns,   *)
(* its result carries the length of the longest run of consecutive wins    *)
(* of the history and the cumulative profit of a streak of that length     *)
(* (a win extends the current streak, a non-positive net resets it).       *)
C21_StreaksReported ==
  (pc = "done" /\ halt \in HaltReasons) =>
    /\ Len(Returned) >= 7
    /\ Returned[6] = LongestStreak(history)
    /\ \/ history = <<>> /\ Returned[7] = 0
       \/ \E j \in 1..Len(history) :
            /\ StreakAt(history, j) = LongestStreak(history)
            /\ Returned[7] = StreakProfitAt(history, j)

Variant ==
  3 * (max_spins - spin)
    + (CASE pc = "loop" -> 0 [] pc = "wagered" -> 2 [] pc = "prompt" -> 1 [] pc = "done" -> 0 - 1)

(* C23: for every strategy, outcome sequence and continuation answers,     *)
(* run() halts after at most max_spins loop iterations: the spin count     *)
(* never exceeds max_spins, the history never holds more than max_spins    *)
(* records, every step of an unfinished run strictly lowers a measure      *)
(* bounded by the iterations left, an unfinished run always has a next     *)
(* step, and no spin is started once the spin count has reached max_spins  *)
(* or the balance is <= 0.                                                 *)
C23_BoundedRun ==
  /\ [](/\ spin <= max_spins
        /\ Len(history) <= spin
        /\ Len(history) <= max_spins
        /\ Variant >= 0 - 1
        /\ (pc # "done" => ENABLED Next)
        /\ (pc = "done" => ~ENABLED Next))
  /\ [][/\ Variant' < Variant
        /\ (spin' # spin => spin < max_spins /\ balance > 0 /\ spin' = spin + 1)
        /\ (pc = "loop" /\ ~LoopGuard => pc' = "done" /\ history' = history)]_vars

\* a run that used every allowed iteration and ended at the cap with money left
C23_Witness ==
  /\ pc = "done"
  /\ halt = "loop_exit"
  /\ max_spins >= 3
  /\ spin = max_spins
  /\ Len(history) = max_spins
  /\ balance > 0

(* C24: in every strategy other than Thirds a spin is a win exactly when   *)
(* the outcome is the number 0, and the American '00' is a loss; over the  *)
(* whole spin a win changes the balance by +34 x stake (stake deducted,    *)
(* 35 x stake credited) and a loss by exactly -stake.                      *)
C24_WinIsZero ==
  system # "Thirds" =>
    \A i \in 1..Len(history) :
      LET r == history[i] IN
        /\ r.result = spin_results[i]
        /\ (r.outcome = "Win") <=> (r.result = 0)
        /\ r.outcome \in {"Win", "Loss"}
        /\ (r.result = DoubleZero => r.outcome = "Loss")
        /\ NetOf(history, i) = IF r.outcome = "Win" THEN 34 * r.bet ELSE 0 - r.bet

\* an American wheel that stopped on '00' (a loss) and on 0 (a win)
C24_Witness ==
  /\ system \in SingleNumberSystems
  /\ wheel_type = "American"
  /\ \E i, j \in 1..Len(history) :
       /\ history[i].result = DoubleZero /\ history[i].outcome = "Loss"
       /\ history[j].result = 0 /\ history[j].outcome = "Win"
       /\ history[j].balance = BalanceBefore(j) + 34 * history[j].bet

(* C25: Thirds: for every recorded spin the signed net stored in the       *)
(* history record equals the change of the balance across that spin: the   *)
(* balance in the record minus the balance before the wager.               *)
C25_NetIsBalanceChange ==
  system = "Thirds" =>
    \A i \in 1..Len(history) : history[i].net = NetOf(history, i)

CountNet(h, P(_)) == Cardinality({i \in 1..Len(h) : P(h[i].net)})

Positive(n) == n > 0

Negative(n) == n < 0

(* C26: in every reachable state of run(), wins + losses equals the number *)
(* of history records for every strategy other than Thirds; for Thirds,    *)
(* wins counts exactly the records with net > 0 and losses exactly those   *)
(* with net < 0, so a break-even spin (net = 0) is recorded in the history *)
(* but counted as neither and triggers no continuation prompt.             *)
C26_Counts ==
  /\ [](IF system = "Thirds"
        THEN /\ wins = CountNet(history, Positive)
             /\ losses = CountNet(history, Negative)
        ELSE wins + losses = Len(history))
  /\ [][(/\ system = "Thirds"
         /\ Len(history') = Len(history) + 1
         /\ Last(history').net = 0)
          => /\ wins' = wins
             /\ losses' = losses
             /\ pc' = "loop"]_vars

\* a Thirds run with a break-even record after a winning one
C26_Witness ==
  /\ system = "Thirds"
  /\ Len(history) >= 2
  /\ \E i \in 1..Len(history) : history[i].net > 0
  /\ Last(history).net = 0
  /\ wins + losses < Len(history)
  /\ pc = "loop"
====
